---- MODULE Spec2Model ----
(***************************************************************************)
(* Notebook metadata reconciliation (updateNotebookMetadata) and the base  *)
(* notebook model (BaseNotebookModel) of src/client/api/serviceRegistry.ts *)
(*                                                                         *)
(* JavaScript values are represented as follows.                           *)
(*   - an absent object is Undefined, an absent string is UndefinedStr;    *)
(*   - an object is a record; the top level of a notebook JSON is a record *)
(*     over the keys that are present (EmptyJson is {}), so that a spread  *)
(*     copies exactly the keys that exist.                                 *)
(***************************************************************************)
EXTENDS Integers, Sequences, FiniteSets, TLC

VARIABLES
    \* ---- updateNotebookMetadata(metadata, kernelConnection) ----
    metadata,          \* the metadata object handed to the call (mutated in place)
    kernelConnection,  \* the kernel connection handed to the call
    before,            \* the metadata object as it was before the last call
    result,            \* what the last call returned: [changed, kernelId]
    calls,             \* number of calls made so far on this metadata object
    \* ---- BaseNotebookModel ----
    globalMemento,     \* host storage, key Active_Kernel_Id_List: the stored list
    model,             \* the fields of the model object, or Undefined before construction
    given,             \* the constructor arguments of the model, and the stored list then
    subclass,          \* what the subclass returns from getICells / getJupyterCells
    fired,             \* number of times the _disposed emitter fired for the model
    disposeCalls,      \* number of dispose() calls made on the model
    ret                \* the last operation on the model and what it returned

updateVars == <<metadata, kernelConnection, before, result, calls>>
modelVars == <<globalMemento, model, given, subclass, fired, disposeCalls, ret>>
vars == <<updateVars, modelVars>>

Undefined == [undefined |-> TRUE]
UndefinedStr == "undefined"

\* a || b on strings: the first operand unless it is falsy ('' or undefined)
OrElse(a, b) == IF a # "" /\ a # UndefinedStr THEN a ELSE b

(***************************************************************************)
(* Bounds of the model                                                     *)
(***************************************************************************)
MaxCalls == 2
MaxDisposeCalls == 2

(***************************************************************************)
(* The inputs of updateNotebookMetadata                                    *)
(***************************************************************************)
Names == {"", "a", "b"}
KernelIds == {"k1"}
Paths == {"/p1", "/p2"}
Versions == {"3.7", "3.8"}

sha256(path) == "sha256:" \o path

\* PythonEnvironment, as far as the call reads it
Interpreters ==
    [displayName : {UndefinedStr, "a"},
     path : Paths,
     version : {Undefined} \cup [raw : Versions]]

\* IJupyterKernelSpec / LiveKernelModel, as far as the call reads them
KernelSpecsOrModels == [name : Names, display_name : Names, id : {UndefinedStr} \cup KernelIds]

KernelConnectionMetadata ==
    [kind : {"connectToLiveKernel"}, kernelModel : KernelSpecsOrModels,
     kernelSpec : {Undefined}, interpreter : {Undefined} \cup Interpreters]
    \cup
    [kind : {"startUsingKernelSpec"}, kernelModel : {Undefined},
     kernelSpec : KernelSpecsOrModels, interpreter : {Undefined} \cup Interpreters]
    \cup
    [kind : {"startUsingDefaultKernel"}, kernelModel : {Undefined},
     kernelSpec : {Undefined} \cup KernelSpecsOrModels, interpreter : {Undefined} \cup Interpreters]
    \cup
    [kind : {"startUsingPythonInterpreter"}, kernelModel : {Undefined},
     kernelSpec : {Undefined} \cup KernelSpecsOrModels, interpreter : Interpreters]

LanguageInfos == [name : {"python"}, version : Versions]

KernelspecMetadatas == [interpreter : [hash : {sha256(p) : p \in Paths}]]

Kernelspecs == [name : Names, display_name : Names, metadata : {Undefined} \cup KernelspecMetadatas]

NotebookMetadatas ==
    [language_info : {Undefined} \cup LanguageInfos, kernelspec : {Undefined} \cup Kernelspecs]

(***************************************************************************)
(* Helpers of jupyter/kernels/helpers                                      *)
(***************************************************************************)
kernelConnectionMetadataHasKernelModel(connection) == connection.kind = "connectToLiveKernel"

getInterpreterFromKernelConnectionMetadata(connection) ==
    IF connection = Undefined THEN Undefined ELSE connection.interpreter

(***************************************************************************)
(* updateNotebookMetadata                                                  *)
(***************************************************************************)
\* mutant: the flag starts out set
NoMetadataResult_changed == [changed |-> TRUE, kernelId |-> UndefinedStr]

\* what the call returns when there is no metadata
NoMetadataResult == [changed |-> FALSE, kernelId |-> UndefinedStr]

\* mutant: the versions are compared with === instead of !==
VersionDiffers_equal(md, interpreter) ==
    /\ interpreter # Undefined
    /\ interpreter.version # Undefined
    /\ md # Undefined
    /\ md.language_info # Undefined
    /\ md.language_info.version = interpreter.version.raw

\* the condition of the first branch: the interpreter's version differs
VersionDiffers(md, interpreter) ==
    /\ interpreter # Undefined
    /\ interpreter.version # Undefined
    /\ md # Undefined
    /\ md.language_info # Undefined
    /\ md.language_info.version # interpreter.version.raw

\* mutant: the else-if does not look at the interpreter
StaleLanguageInfo_always(md, interpreter) == md.language_info # Undefined

\* the condition of the else-if branch: stale language_info without an interpreter
StaleLanguageInfo(md, interpreter) ==
    /\ interpreter = Undefined
    /\ md.language_info # Undefined

\* the language_info step: [metadata, changed]
UpdateLanguageInfo(md, interpreter) ==
    IF VersionDiffers(md, interpreter)
    THEN [metadata |-> [md EXCEPT !.language_info.version = interpreter.version.raw],
          changed |-> TRUE]
    ELSE IF StaleLanguageInfo(md, interpreter)
    THEN [metadata |-> [md EXCEPT !.language_info = Undefined], changed |-> TRUE]
    ELSE [metadata |-> md, changed |-> FALSE]

KernelSpecOrModel(connection) ==
    IF connection # Undefined /\ kernelConnectionMetadataHasKernelModel(connection)
    THEN connection.kernelModel
    ELSE IF connection = Undefined THEN Undefined ELSE connection.kernelSpec

\* mutant: the name prefers display_name, as the display name does
SpecName_display(k) == OrElse(k.display_name, OrElse(k.name, ""))

SpecName(k) == OrElse(k.name, OrElse(k.display_name, ""))
SpecDisplayName(k) == OrElse(k.display_name, OrElse(k.name, ""))

\* the condition under which an existing kernelspec is updated; kernelId is the
\* local variable of the call, still undefined at this point
ExistingSpecDiffers(kernelspec, k, kernelId) ==
    \/ kernelspec.name # SpecName(k)
    \/ kernelspec.display_name # SpecDisplayName(k)
    \/ kernelId # k.id

InterpreterName(interpreter) == OrElse(interpreter.displayName, interpreter.path)

\* the condition under which the kernelspec of an interpreter is (re)written
InterpreterSpecDiffers(kernelspec, name) ==
    \/ kernelspec = Undefined
    \/ kernelspec.name # name
    \/ kernelspec.display_name # name

\* the kernelspec step: [metadata, changed, kernelId]
UpdateKernelspec(md, connection, changed) ==
    LET k == KernelSpecOrModel(connection)
        kernelId == UndefinedStr
    IN  IF k # Undefined /\ md.kernelspec = Undefined
        THEN [metadata |-> [md EXCEPT !.kernelspec =
                               [name |-> SpecName(k),
                                display_name |-> SpecDisplayName(k),
                                metadata |-> Undefined]],
              changed |-> TRUE,
              kernelId |-> k.id]
        ELSE IF k # Undefined /\ md.kernelspec # Undefined
        THEN IF ExistingSpecDiffers(md.kernelspec, k, kernelId)
             THEN [metadata |-> [md EXCEPT !.kernelspec.name = SpecName(k),
                                           !.kernelspec.display_name = SpecDisplayName(k)],
                   changed |-> TRUE,
                   kernelId |-> k.id]
             ELSE [metadata |-> md, changed |-> changed, kernelId |-> kernelId]
        ELSE IF connection # Undefined /\ connection.kind = "startUsingPythonInterpreter"
        THEN LET name == InterpreterName(connection.interpreter)
             IN  IF InterpreterSpecDiffers(md.kernelspec, name)
                 THEN [metadata |-> [md EXCEPT !.kernelspec =
                                        [name |-> name,
                                         display_name |-> name,
                                         metadata |-> [interpreter |->
                                             [hash |-> sha256(connection.interpreter.path)]]]],
                       changed |-> TRUE,
                       kernelId |-> kernelId]
                 ELSE [metadata |-> md, changed |-> changed, kernelId |-> kernelId]
        ELSE [metadata |-> md, changed |-> changed, kernelId |-> kernelId]

\* the whole call: the metadata object after it, and the returned {changed, kernelId}
updateNotebookMetadata(md, connection) ==
    IF md = Undefined
    THEN [metadata |-> md, changed |-> NoMetadataResult.changed,
          kernelId |-> NoMetadataResult.kernelId]
    ELSE LET interpreter == getInterpreterFromKernelConnectionMetadata(connection)
             s1 == UpdateLanguageInfo(md, interpreter)
         IN  UpdateKernelspec(s1.metadata, connection, s1.changed)

(***************************************************************************)
(* The specification of updateNotebookMetadata: the inputs are drawn from  *)
(* the sets above and the call is made MaxCalls times on the same objects. *)
(***************************************************************************)
NoModel ==
    /\ globalMemento = <<>>
    /\ model = Undefined
    /\ given = Undefined
    /\ subclass = Undefined
    /\ fired = 0
    /\ disposeCalls = 0
    /\ ret = [op |-> "none"]

InitUpdate ==
    /\ metadata \in {Undefined} \cup NotebookMetadatas
    /\ kernelConnection \in {Undefined} \cup KernelConnectionMetadata
    /\ before = metadata
    /\ result = [changed |-> FALSE, kernelId |-> UndefinedStr]
    /\ calls = 0
    /\ NoModel

Update ==
    /\ calls < MaxCalls
    /\ LET r == updateNotebookMetadata(metadata, kernelConnection)
       IN  /\ before' = metadata
           /\ metadata' = r.metadata
           /\ result' = [changed |-> r.changed, kernelId |-> r.kernelId]
    /\ calls' = calls + 1
    /\ UNCHANGED <<kernelConnection, modelVars>>

NextUpdate == Update

SpecUpdate == InitUpdate /\ [][NextUpdate]_vars

(***************************************************************************)
(* BaseNotebookModel                                                       *)
(***************************************************************************)
MaximumKernelIdListSize == 40

EmptyJson == [f \in {} |-> 0]

\* obj.key = value, adding the key when it is not there
Put(obj, key, value) == [f \in DOMAIN obj \cup {key} |-> IF f = key THEN value ELSE obj[f]]

\* !obj.key for an object-valued key
Lacks(obj, key) == key \notin DOMAIN obj \/ obj[key] = Undefined

Files == {"file:///a.ipynb", "file:///b.ipynb", "untitled:Untitled-1"}

\* ICryptoUtils.createHash(data, 'string'): a short hash, under which two files may collide
createHash(data) ==
    CASE data = "file:///a.ipynb" -> "h1"
      [] data = "file:///b.ipynb" -> "h2"
      [] OTHER -> "h1"

\* entries of files other than the ones opened here
OtherEntries(n) == [i \in 1..n |-> [fileHash |-> "other" \o ToString(i), kernelId |-> "k1"]]

\* what the host storage may hold when the extension starts
StoredHeads ==
    {<<>>,
     <<[fileHash |-> "h1", kernelId |-> "k1"]>>,
     <<[fileHash |-> "h1", kernelId |-> UndefinedStr]>>,
     <<[fileHash |-> "h2", kernelId |-> "k1"], [fileHash |-> "h1", kernelId |-> "k2"]>>,
     <<[fileHash |-> "h1", kernelId |-> "k2"], [fileHash |-> "h1", kernelId |-> "k1"]>>}

\* a list that is full, or one entry short of it
NearlyFullLists ==
    {l \in {OtherEntries(n) \o h :
                n \in {MaximumKernelIdListSize - 1, MaximumKernelIdListSize},
                h \in StoredHeads} :
        Len(l) <= MaximumKernelIdListSize}

\* notebook metadata a stored notebook may carry
StoredMetadata ==
    [kernelspec |-> [name |-> "python3", display_name |-> "Python 3"], orig_nbformat |-> 4]

\* the notebookJson argument of the constructor; Undefined when the caller passes none
NotebookJsons ==
    {Undefined,
     [metadata |-> StoredMetadata, nbformat |-> 3, nbformat_minor |-> 0, custom |-> "x",
      cells |-> <<"stored">>],
     [metadata |-> Undefined, nbformat |-> 3, nbformat_minor |-> 0],
     [nbformat |-> 3, nbformat_minor |-> 0, cells |-> <<"stored">>]}

\* what a subclass returns from getICells and getJupyterCells (the base class: [] and [])
Subclasses ==
    {[getICells |-> <<>>, getJupyterCells |-> <<>>],
     [getICells |-> <<"cell1">>, getJupyterCells |-> <<"jupyter1">>]}

getDefaultNotebookContent(pythonNumber) ==
    [metadata |->
        [language_info |->
            [codemirror_mode |-> [name |-> "ipython", version |-> pythonNumber],
             file_extension |-> ".py",
             mimetype |-> "text/x-python",
             name |-> "python",
             nbconvert_exporter |-> "python",
             pygments_lexer |-> "ipython" \o ToString(pythonNumber),
             version |-> pythonNumber],
         orig_nbformat |-> 2],
     nbformat |-> 4,
     nbformat_minor |-> 2]

\* ensureNotebookJson: the notebookJson field after it
ensureNotebookJson(notebookJson, pythonNumber) ==
    IF notebookJson = Undefined \/ Lacks(notebookJson, "metadata")
    THEN getDefaultNotebookContent(pythonNumber)
    ELSE notebookJson

\* mutant: the last entry with the file's hash is taken
getStoredKernelId_last(list, file) ==
    LET fileHash == createHash(file)
        found == {i \in 1..Len(list) : list[i].fileHash = fileHash}
    IN  IF found = {}
        THEN UndefinedStr
        ELSE list[CHOOSE i \in found : \A j \in found : i >= j].kernelId

\* getStoredKernelId: the kernelId of the first entry of the list with the file's hash
getStoredKernelId(list, file) ==
    LET fileHash == createHash(file)
        found == {i \in 1..Len(list) : list[i].fileHash = fileHash}
    IN  IF found = {}
        THEN UndefinedStr
        ELSE list[CHOOSE i \in found : \A j \in found : i <= j].kernelId

isDisposed(m) == m._isDisposed = "true"

\* get cells()
cells(m, sub) == IF isDisposed(m) THEN <<>> ELSE sub.getICells

\* get metadata()
metadataOf(m) ==
    IF OrElse(m.kernelId, "") # "" /\ ~Lacks(m.notebookJson, "metadata")
    THEN Put(m.notebookJson.metadata, "id", m.kernelId)
    ELSE IF "metadata" \in DOMAIN m.notebookJson THEN m.notebookJson.metadata ELSE Undefined

\* generateNotebookJson: the returned json, after ensureNotebookJson
generateNotebookJson(m, sub) ==
    Put(ensureNotebookJson(m.notebookJson, m.pythonNumber), "cells", sub.getJupyterCells)

\* JSON.stringify(json, null, indentAmount)
stringify(json, indentAmount) == [text |-> "json", of |-> json, indent |-> indentAmount]

\* the list written back by the model that remembers kernel id `id` for `file`:
\* the file's old entry removed, the new one pushed, the oldest dropped beyond the cap
\* mutant: the list is cut one entry too late
RECURSIVE prune_late(_)
prune_late(list) ==
    IF Len(list) > MaximumKernelIdListSize + 1 THEN prune_late(Tail(list)) ELSE list

RECURSIVE prune(_)
prune(list) == IF Len(list) > MaximumKernelIdListSize THEN prune(Tail(list)) ELSE list

setStoredKernelId(list, file, id) ==
    LET fileHash == createHash(file)
        found == {i \in 1..Len(list) : list[i].fileHash = fileHash}
        index == IF found = {} THEN 0 ELSE CHOOSE i \in found : \A j \in found : i <= j
        removed == IF index = 0 THEN list
                   ELSE SubSeq(list, 1, index - 1) \o SubSeq(list, index + 1, Len(list))
        pushed == IF OrElse(id, "") # "" THEN Append(removed, [fileHash |-> fileHash, kernelId |-> id])
                  ELSE removed
    IN  prune(pushed)

(***************************************************************************)
(* The operations on a model                                               *)
(***************************************************************************)
NoUpdate ==
    /\ metadata = Undefined
    /\ kernelConnection = Undefined
    /\ before = Undefined
    /\ result = [changed |-> FALSE, kernelId |-> UndefinedStr]
    /\ calls = 0

InitModel(lists) ==
    /\ globalMemento \in lists
    /\ model = Undefined
    /\ given = Undefined
    /\ subclass \in Subclasses
    /\ fired = 0
    /\ disposeCalls = 0
    /\ ret = [op |-> "none"]
    /\ NoUpdate

Init == InitModel(StoredHeads)

\* new Subclass(isTrusted, file, globalMemento, crypto, notebookJson, indentAmount, pythonNumber)
Construct(trusts, notebookJsons, pythonNumbers) ==
    \E isTrusted \in trusts, file \in Files, notebookJson \in notebookJsons,
       pythonNumber \in pythonNumbers :
        /\ given' = [isTrusted |-> isTrusted, file |-> file, notebookJson |-> notebookJson,
                     pythonNumber |-> pythonNumber, storedList |-> globalMemento]
        /\ model' = [_isTrusted |-> isTrusted,
                     _file |-> file,
                     _isDisposed |-> UndefinedStr,
                     pythonNumber |-> pythonNumber,
                     indentAmount |-> " ",
                     notebookJson |-> ensureNotebookJson(
                         IF notebookJson = Undefined THEN EmptyJson ELSE notebookJson,
                         pythonNumber),
                     kernelId |-> getStoredKernelId(globalMemento, file)]
        /\ fired' = 0
        /\ disposeCalls' = 0
        /\ ret' = [op |-> "constructor"]
        /\ UNCHANGED <<globalMemento, subclass, updateVars>>

Dispose ==
    /\ model # Undefined
    /\ disposeCalls < MaxDisposeCalls
    /\ model' = [model EXCEPT !._isDisposed = "true"]
    /\ fired' = fired + 1
    /\ disposeCalls' = disposeCalls + 1
    /\ ret' = [op |-> "dispose"]
    /\ UNCHANGED <<globalMemento, given, subclass, updateVars>>

Trust ==
    /\ model # Undefined
    /\ model' = [model EXCEPT !._isTrusted = TRUE]
    /\ ret' = [op |-> "trust"]
    /\ UNCHANGED <<globalMemento, given, subclass, fired, disposeCalls, updateVars>>

ReadCells ==
    /\ model # Undefined
    /\ ret' = [op |-> "cells", value |-> cells(model, subclass)]
    /\ UNCHANGED <<globalMemento, model, given, subclass, fired, disposeCalls, updateVars>>

ReadMetadata ==
    /\ model # Undefined
    /\ ret' = [op |-> "metadata", value |-> metadataOf(model)]
    /\ UNCHANGED <<globalMemento, model, given, subclass, fired, disposeCalls, updateVars>>

GetRawContent ==
    /\ model # Undefined
    /\ model' = [model EXCEPT !.notebookJson = ensureNotebookJson(@, model.pythonNumber)]
    /\ ret' = [op |-> "getRawContent", value |-> generateNotebookJson(model, subclass)]
    /\ UNCHANGED <<globalMemento, given, subclass, fired, disposeCalls, updateVars>>

GetContent ==
    /\ model # Undefined
    /\ model' = [model EXCEPT !.notebookJson = ensureNotebookJson(@, model.pythonNumber)]
    /\ ret' = [op |-> "getContent",
               value |-> stringify(generateNotebookJson(model, subclass), model.indentAmount)]
    /\ UNCHANGED <<globalMemento, given, subclass, fired, disposeCalls, updateVars>>

\* the model's kernel changes and the id is remembered for its file
StoreKernelId ==
    /\ model # Undefined
    /\ \E id \in {UndefinedStr} \cup KernelIds :
           globalMemento' = setStoredKernelId(globalMemento, model._file, id)
    /\ ret' = [op |-> "setStoredKernelId"]
    /\ UNCHANGED <<model, given, subclass, fired, disposeCalls, updateVars>>

Next ==
    \/ Construct(BOOLEAN, NotebookJsons, {2, 3})
    \/ Dispose
    \/ Trust
    \/ ReadCells
    \/ ReadMetadata
    \/ GetRawContent
    \/ GetContent
    \/ StoreKernelId

Spec == Init /\ [][Next]_vars

\* the same operations on a stored list that is full or nearly so, and on one notebook
InitStore == InitModel(NearlyFullLists)

NextStore ==
    \/ Construct({TRUE}, {Undefined}, {3})
    \/ Dispose
    \/ Trust
    \/ ReadCells
    \/ ReadMetadata
    \/ GetRawContent
    \/ GetContent
    \/ StoreKernelId

SpecStore == InitStore /\ [][NextStore]_vars

(***************************************************************************)
(* Properties of updateNotebookMetadata (under SpecUpdate). After a call,  *)
(* `before` is the metadata as it was when the call was made, `metadata`   *)
(* what the call left and `result` what it returned.                       *)
(***************************************************************************)
Called == calls >= 1

\* the interpreter the connection yields
Yields == getInterpreterFromKernelConnectionMetadata(kernelConnection)

\* C1: the call returns changed = true only when a field of the metadata has a
\* different value after the call than before it, and so a second call with the
\* same metadata object and the same connection returns changed = false.
C1_ChangedOnlyWhenDiffers ==
    /\ (Called /\ result.changed) => metadata # before
    /\ calls >= 2 => ~result.changed

\* C2: with an interpreter that has a version and a language_info whose version
\* differs, the call sets language_info.version to the interpreter's and returns
\* changed = true; with an interpreter and an equal version, no version or no
\* language_info, language_info is left exactly as it was.
C2_VersionUpdatedOnlyWhenDiffers ==
    (Called /\ before # Undefined /\ Yields # Undefined) =>
        IF /\ Yields.version # Undefined
           /\ before.language_info # Undefined
           /\ before.language_info.version # Yields.version.raw
        THEN /\ metadata.language_info =
                    [name |-> before.language_info.name, version |-> Yields.version.raw]
             /\ result.changed
        ELSE metadata.language_info = before.language_info

C2_Witness ==
    /\ calls = 1
    /\ before # Undefined
    /\ Yields # Undefined
    /\ Yields.version # Undefined
    /\ before.language_info # Undefined
    /\ before.language_info.version = "3.7"
    /\ metadata.language_info.version = "3.8"

\* C3: a language_info is cleared, and changed = true returned, whenever the
\* connection (absent or present) yields no interpreter; it is never cleared when
\* an interpreter is available.
C3_StaleLanguageInfoCleared ==
    (Called /\ before # Undefined /\ before.language_info # Undefined) =>
        IF Yields = Undefined
        THEN metadata.language_info = Undefined /\ result.changed
        ELSE metadata.language_info # Undefined

C3_Witness ==
    /\ calls = 1
    /\ before # Undefined
    /\ before.language_info # Undefined
    /\ kernelConnection # Undefined
    /\ Yields = Undefined
    /\ metadata.language_info = Undefined

\* the kernel model when the connection carries one, its kernelSpec otherwise
Carried ==
    IF kernelConnection = Undefined THEN Undefined
    ELSE IF kernelConnection.kernelModel # Undefined THEN kernelConnection.kernelModel
    ELSE kernelConnection.kernelSpec

\* C4: when the connection carries a kernel model or a kernelSpec, after the call
\* kernelspec.name is (name || display_name || '') and kernelspec.display_name is
\* (display_name || name || '') of it, the returned kernelId is its id whenever
\* changed = true, and the other fields of an existing kernelspec are kept.
C4_KernelspecFromSpecOrModel ==
    (Called /\ before # Undefined /\ Carried # Undefined) =>
        /\ metadata.kernelspec # Undefined
        /\ metadata.kernelspec.name =
               (IF Carried.name # "" THEN Carried.name
                ELSE IF Carried.display_name # "" THEN Carried.display_name ELSE "")
        /\ metadata.kernelspec.display_name =
               (IF Carried.display_name # "" THEN Carried.display_name
                ELSE IF Carried.name # "" THEN Carried.name ELSE "")
        /\ result.changed => result.kernelId = Carried.id
        /\ before.kernelspec # Undefined =>
               metadata.kernelspec.metadata = before.kernelspec.metadata

C4_Witness ==
    /\ calls = 1
    /\ before # Undefined
    /\ Carried # Undefined
    /\ Carried.name = ""
    /\ Carried.display_name = "b"
    /\ before.kernelspec # Undefined
    /\ before.kernelspec.name = "a"
    /\ before.kernelspec.metadata # Undefined
    /\ metadata.kernelspec.name = "b"
    /\ result.kernelId = "k1"

\* C5: when the connection carries only an interpreter, after the call the
\* kernelspec names that interpreter and holds the sha256 of its path, whatever
\* the kernelspec was before.
C5_KernelspecIdentifiesInterpreter ==
    (/\ Called
     /\ before # Undefined
     /\ kernelConnection # Undefined
     /\ kernelConnection.kind = "startUsingPythonInterpreter"
     /\ Carried = Undefined) =>
        LET interpreter == kernelConnection.interpreter
            name == IF interpreter.displayName # UndefinedStr THEN interpreter.displayName
                    ELSE interpreter.path
        IN  /\ metadata.kernelspec # Undefined
            /\ metadata.kernelspec.name = name
            /\ metadata.kernelspec.display_name = name
            /\ metadata.kernelspec.metadata # Undefined
            /\ metadata.kernelspec.metadata.interpreter.hash = sha256(interpreter.path)

\* C8: without metadata the call returns {changed: false, kernelId: undefined}
\* for every connection; with metadata and no connection it leaves the kernelspec
\* alone and returns no kernelId.
C8_MissingInputsTolerated ==
    Called =>
        /\ before = Undefined =>
               /\ result = [changed |-> FALSE, kernelId |-> UndefinedStr]
               /\ metadata = Undefined
        /\ (before # Undefined /\ kernelConnection = Undefined) =>
               /\ metadata.kernelspec = before.kernelspec
               /\ result.kernelId = UndefinedStr

C8_Witness ==
    /\ calls = 1
    /\ before = Undefined
    /\ kernelConnection # Undefined
    /\ kernelConnection.kind = "connectToLiveKernel"
    /\ kernelConnection.kernelModel.id = "k1"

(***************************************************************************)
(* Properties of BaseNotebookModel (under Spec and SpecStore)              *)
(***************************************************************************)
\* C6: the stored list holds at most 40 entries in every reachable state.
C6_StoredListCapped == Len(globalMemento) <= 40

\* a kernel id was stored for a new file in a full list, and the oldest entry left
C6_Witness ==
    /\ ret.op = "setStoredKernelId"
    /\ Len(globalMemento) = 40
    /\ globalMemento[1].fileHash # "other1"
    /\ globalMemento[40].fileHash = createHash(model._file)

\* the entries of `list` with hash `h` that no entry with that hash precedes
FirstWithHash(list, h) ==
    {i \in 1..Len(list) :
        list[i].fileHash = h /\ \A j \in 1..(i - 1) : list[j].fileHash # h}

\* C7: the metadata getter returns the notebook metadata extended with the
\* kernelId of the first entry, of the list as stored when the model was
\* constructed, whose fileHash is the hash of the model's file; without such an
\* entry, or when its kernelId is undefined, it returns the metadata as it is.
C7_KernelIdLookedUpAtConstruction ==
    ret.op = "metadata" =>
        LET first == FirstWithHash(given.storedList, createHash(given.file))
            md == model.notebookJson.metadata
        IN  IF \E i \in first : given.storedList[i].kernelId # UndefinedStr
            THEN \A i \in first :
                    /\ DOMAIN ret.value = DOMAIN md \cup {"id"}
                    /\ ret.value.id = given.storedList[i].kernelId
                    /\ \A f \in DOMAIN md : ret.value[f] = md[f]
            ELSE ret.value = md

\* the id is reported although the stored list has changed since and now holds
\* another id for the file
C7_Witness ==
    /\ ret.op = "metadata"
    /\ "id" \in DOMAIN ret.value
    /\ ret.value.id = "k2"
    /\ globalMemento # given.storedList
    /\ \E i \in FirstWithHash(globalMemento, createHash(given.file)) :
           globalMemento[i].kernelId = "k1"

\* C9: once dispose() has been called isDisposed stays true, every later read of
\* cells returns the empty list, and onDidDispose has fired exactly once however
\* often dispose() was called.
C9_DisposedOnce ==
    disposeCalls >= 1 =>
        /\ model._isDisposed = "true"
        /\ ret.op = "cells" => ret.value = <<>>
        /\ fired = 1

\* C10: getRawContent() returns the subclass's cells and otherwise every top-level
\* field of the JSON the model was constructed from, the default content being
\* used only when no JSON was supplied, and always a defined metadata.
C10_ContentReusesOriginalJson ==
    ret.op = "getRawContent" =>
        /\ ret.value.cells = subclass.getJupyterCells
        /\ given.notebookJson # Undefined =>
               \A f \in DOMAIN given.notebookJson \ {"cells"} :
                   f \in DOMAIN ret.value /\ ret.value[f] = given.notebookJson[f]
        /\ (/\ DOMAIN ret.value \ {"cells"} =
                    DOMAIN getDefaultNotebookContent(given.pythonNumber)
            /\ \A f \in DOMAIN ret.value \ {"cells"} :
                    ret.value[f] = getDefaultNotebookContent(given.pythonNumber)[f]) =>
               given.notebookJson = Undefined
        /\ "metadata" \in DOMAIN ret.value
        /\ ret.value.metadata # Undefined

====
